---- MODULE Spec2Model ----
(***************************************************************************)
(* Poker Control: the App component (src/unnamed/part_000) as a state      *)
(* machine.  The state is the component's React state, the localStorage    *)
(* item, and what React still has to do: the effects of the last render    *)
(* that have not run yet and the updates that effects have queued.  There  *)
(* is one action per event handler the rendered view attaches (the         *)
(* handler, the render of its updates and the effects of that render; a    *)
(* handler that returns before it sets state renders nothing), one for     *)
(* the run of the pending effects, one for the render of queued updates,   *)
(* whose effects run in a later step, and one for a reload of the page.    *)
(*                                                                         *)
(* A number is an IEEE-754 double, kept as sign, odd significand and       *)
(* exponent of two; +, -, *, / and Number(text) round to the nearest       *)
(* double, ties to even, as the code's arithmetic does.  Strings the code  *)
(* inspects (player names, the text of the number inputs) are sequences    *)
(* of one-character strings.  A Rebuy's timestamp is written once and      *)
(* never read, and is left out.                                            *)
(***************************************************************************)
EXTENDS Integers, Sequences, FiniteSets, TLC

\* ---------------------------------------------------------------- bounds
\* crypto.randomUUID() is modelled by a counter; at most MaxUuid ids are drawn,
\* so the players and rebuys created in one run number MaxUuid at most.
MaxUuid == 2

\* The sample states SpecCmd starts from have at most MaxPlayers players, each
\* with at most MaxRebuys rebuys.
MaxPlayers == 2

MaxRebuys == 1

\* The sample states SpecLedger starts from give a player at most
\* MaxLedgerRebuys rebuys.
MaxLedgerRebuys == 2

\* The sample states SpecRank starts from have at most MaxRanked players.
MaxRanked == 4

\* --------------------------------------------------------------- numbers
\* A natural number of any size: its digits in base 2^15, the lowest first,
\* without a leading zero digit; <<>> is zero.  Products and carries of two
\* digits stay below 2^31.
Base == 32768

DigitBits == 15

\* The bits of a double's significand.
Precision == 53

RECURSIVE Pow2(_)
Pow2(k) == IF k = 0 THEN 1 ELSE 2 * Pow2(k - 1)

RECURSIVE BitLength(_)
BitLength(n) == IF n = 0 THEN 0 ELSE 1 + BitLength(n \div 2)

RECURSIVE TrailingZeros(_)
TrailingZeros(n) == IF n % 2 = 1 THEN 0 ELSE 1 + TrailingZeros(n \div 2)

RECURSIVE BigTrim(_)
BigTrim(a) ==
    IF a # <<>> /\ a[Len(a)] = 0 THEN BigTrim(SubSeq(a, 1, Len(a) - 1)) ELSE a

RECURSIVE BigOf(_)
BigOf(n) == IF n = 0 THEN <<>> ELSE <<n % Base>> \o BigOf(n \div Base)

BigDigit(a, i) == IF i <= Len(a) THEN a[i] ELSE 0

RECURSIVE BigAddFrom(_, _, _, _)
BigAddFrom(a, b, i, carry) ==
    IF i > Len(a) /\ i > Len(b) THEN BigOf(carry)
    ELSE LET x == BigDigit(a, i) + BigDigit(b, i) + carry
         IN  <<x % Base>> \o BigAddFrom(a, b, i + 1, x \div Base)

BigAdd(a, b) == BigAddFrom(a, b, 1, 0)

\* a - b for a >= b
RECURSIVE BigSubFrom(_, _, _, _)
BigSubFrom(a, b, i, borrow) ==
    IF i > Len(a) THEN <<>>
    ELSE LET x == a[i] - BigDigit(b, i) - borrow
         IN  <<(x + Base) % Base>>
                 \o BigSubFrom(a, b, i + 1, IF x < 0 THEN 1 ELSE 0)

BigSub(a, b) == BigTrim(BigSubFrom(a, b, 1, 0))

\* -1, 0 or 1 as a is below, equal to or above b
RECURSIVE BigCmpAt(_, _, _)
BigCmpAt(a, b, i) ==
    IF i = 0 THEN 0
    ELSE IF a[i] # b[i] THEN (IF a[i] < b[i] THEN 0 - 1 ELSE 1)
    ELSE BigCmpAt(a, b, i - 1)

BigCmp(a, b) ==
    IF Len(a) # Len(b) THEN (IF Len(a) < Len(b) THEN 0 - 1 ELSE 1)
    ELSE BigCmpAt(a, b, Len(a))

\* a * k for one digit k
RECURSIVE BigTimesFrom(_, _, _, _)
BigTimesFrom(a, k, i, carry) ==
    IF i > Len(a) THEN BigOf(carry)
    ELSE LET x == a[i] * k + carry
         IN  <<x % Base>> \o BigTimesFrom(a, k, i + 1, x \div Base)

BigTimes(a, k) == BigTrim(BigTimesFrom(a, k, 1, 0))

\* a * Base^n
BigShiftDigits(a, n) == IF a = <<>> THEN <<>> ELSE [i \in 1..n |-> 0] \o a

RECURSIVE BigMulFrom(_, _, _)
BigMulFrom(a, b, i) ==
    IF i > Len(b) THEN <<>>
    ELSE BigAdd(BigShiftDigits(BigTimes(a, b[i]), i - 1),
                BigMulFrom(a, b, i + 1))

BigMul(a, b) == BigMulFrom(a, b, 1)

\* quotient and remainder of a by one digit k, from the highest digit i down
RECURSIVE BigDivDigitFrom(_, _, _, _)
BigDivDigitFrom(a, k, i, r) ==
    IF i = 0 THEN [q |-> <<>>, r |-> r]
    ELSE LET cur == r * Base + a[i]
             rest == BigDivDigitFrom(a, k, i - 1, cur % k)
         IN  [q |-> Append(rest.q, cur \div k), r |-> rest.r]

BigDivDigit(a, k) ==
    LET d == BigDivDigitFrom(a, k, Len(a), 0)
    IN  [q |-> BigTrim(d.q), r |-> BigOf(d.r)]

\* a * 2^n and the whole part of a / 2^n
BigShl(a, n) ==
    BigShiftDigits(BigTimes(a, Pow2(n % DigitBits)), n \div DigitBits)

BigShr(a, n) ==
    BigDivDigit(SubSeq(a, n \div DigitBits + 1, Len(a)),
                Pow2(n % DigitBits)).q

BigBitLength(a) ==
    IF a = <<>> THEN 0
    ELSE DigitBits * (Len(a) - 1) + BitLength(a[Len(a)])

RECURSIVE BigTrailingZeros(_)
BigTrailingZeros(a) ==
    IF a[1] = 0 THEN DigitBits + BigTrailingZeros(Tail(a))
    ELSE TrailingZeros(a[1])

BigBit(a, i) ==
    (BigDigit(a, i \div DigitBits + 1) \div Pow2(i % DigitBits)) % 2

\* The digit q with q * b <= r < (q + 1) * b, for r < b * Base and b with its
\* highest digit at least Base / 2: the guess from the highest digits is at
\* most two above q.
BigQuotientDigit(r, b) ==
    LET n == Len(b)
        top == BigDigit(r, n + 1) * Base + BigDigit(r, n)
        guess == IF top \div b[n] >= Base THEN Base - 1 ELSE top \div b[n]
    IN  IF BigCmp(BigTimes(b, guess), r) <= 0 THEN guess
        ELSE IF BigCmp(BigTimes(b, guess - 1), r) <= 0 THEN guess - 1
        ELSE guess - 2

\* One step of long division: the quotient and remainder of the digits above,
\* and one more digit low of the dividend.
BigLongDivStep(above, low, b) ==
    IF above.r = <<>> /\ low = 0 THEN [q |-> <<0>> \o above.q, r |-> <<>>]
    ELSE LET r == <<low>> \o above.r
             digit == BigQuotientDigit(r, b)
         IN  [q |-> <<digit>> \o above.q, r |-> BigSub(r, BigTimes(b, digit))]

\* quotient and remainder by b of the digits of a from digit i up
RECURSIVE BigLongDivFrom(_, _, _)
BigLongDivFrom(a, b, i) ==
    IF i > Len(a) THEN [q |-> <<>>, r |-> <<>>]
    ELSE BigLongDivStep(BigLongDivFrom(a, b, i + 1), a[i], b)

\* quotient and remainder of a by b, b not zero
BigDivMod(a, b) ==
    IF Len(b) = 1 THEN BigDivDigit(a, b[1])
    ELSE LET scale == DigitBits - BitLength(b[Len(b)])
             d == BigLongDivFrom(BigShl(a, scale), BigShl(b, scale), 1)
         IN  [q |-> BigTrim(d.q), r |-> BigShr(d.r, scale)]

\* A Number is an IEEE-754 double: s * m * 2^e with s the sign, m odd (or
\* zero).  The amounts of the program stay far from the largest and the
\* smallest double, so no value overflows or is subnormal; -0 is written as 0
\* (===, < and JSON.stringify do not tell them apart).
Zero == [s |-> 1, m |-> <<>>, e |-> 0]

\* s * m * 2^e in its one form
Canon(s, m, e) ==
    IF m = <<>> THEN Zero
    ELSE LET z == BigTrailingZeros(m)
         IN  [s |-> s, m |-> BigShr(m, z), e |-> e + z]

\* s * (m + f) * 2^e rounded to the nearest double, ties to even; 0 <= f < 1
\* and inexact says that f is not zero.
Round(s, m, inexact, e) ==
    LET drop == BigBitLength(m) - Precision
    IN  IF drop <= 0 THEN Canon(s, m, e)
        ELSE LET kept == BigShr(m, drop)
                 rest == BigSub(m, BigShl(kept, drop))
                 half == BigCmp(rest, BigShl(<<1>>, drop - 1))
                 up == half > 0
                       \/ (half = 0 /\ (inexact \/ BigBit(kept, 0) = 1))
             IN  Canon(s, IF up THEN BigAdd(kept, <<1>>) ELSE kept, e + drop)

\* s * n / d rounded to the nearest double (n, d naturals, d not zero): the
\* quotient is taken with two bits more than a significand holds.
RoundRatio(s, n, d, e) ==
    IF n = <<>> THEN Zero
    ELSE LET need == Precision + 2 + BigBitLength(d) - BigBitLength(n)
             shift == IF need > 0 THEN need ELSE 0
             qr == BigDivMod(BigShl(n, shift), d)
         IN  Round(s, qr.q, qr.r # <<>>, e - shift)

\* The whole number n.
D(n) == IF n < 0 THEN Canon(0 - 1, BigOf(0 - n), 0) ELSE Canon(1, BigOf(n), 0)

RECURSIVE BigPow10(_)
BigPow10(k) == IF k = 0 THEN <<1>> ELSE BigTimes(BigPow10(k - 1), 10)

\* The decimal literal m * 10^-e (0.1 is Dec(1, 1)).
Dec(m, e) ==
    RoundRatio(IF m < 0 THEN 0 - 1 ELSE 1, BigOf(IF m < 0 THEN 0 - m ELSE m),
               BigPow10(e), 0)

\* the magnitudes of x and y as whole multiples of 2^min(x.e, y.e)
Aligned(x, y) == BigShl(x.m, IF x.e > y.e THEN x.e - y.e ELSE 0)

Negate(x) == IF x.m = <<>> THEN x ELSE [x EXCEPT !.s = 0 - x.s]

\* x + y
DblAdd(x, y) ==
    IF x.m = <<>> THEN y
    ELSE IF y.m = <<>> THEN x
    ELSE LET e == IF x.e < y.e THEN x.e ELSE y.e
             a == Aligned(x, y)
             b == Aligned(y, x)
             c == BigCmp(a, b)
         IN  IF x.s = y.s THEN Round(x.s, BigAdd(a, b), FALSE, e)
             ELSE IF c = 0 THEN Zero
             ELSE IF c > 0 THEN Round(x.s, BigSub(a, b), FALSE, e)
             ELSE Round(y.s, BigSub(b, a), FALSE, e)

\* x - y
DblSub(x, y) == DblAdd(x, Negate(y))

\* x * y
DblMul(x, y) == Round(x.s * y.s, BigMul(x.m, y.m), FALSE, x.e + y.e)

\* x / y for y not zero
DblDiv(x, y) == RoundRatio(x.s * y.s, x.m, y.m, x.e - y.e)

\* -1, 0 or 1 as x is below, equal to or above y
DblCmp(x, y) ==
    IF x.m = <<>> THEN (IF y.m = <<>> THEN 0 ELSE 0 - y.s)
    ELSE IF y.m = <<>> \/ x.s # y.s THEN x.s
    ELSE x.s * BigCmp(Aligned(x, y), Aligned(y, x))

\* x < y, x <= y, Math.abs(x)
DblLt(x, y) == DblCmp(x, y) < 0

DblLe(x, y) == DblCmp(x, y) <= 0

DblAbs(x) == [x EXCEPT !.s = 1]

\* ------------------------------------------------------------- constants
HOUSE_FEE_FIXED == D(10)

INITIAL_STATE ==
    [isStarted |-> FALSE, finished |-> FALSE,
     config |-> [buyInAmount |-> D(50)], players |-> <<>>]

\* ----------------------------------------------------------------- strings
\* The characters String.prototype.trim removes: ECMAScript's WhiteSpace and
\* LineTerminator.  A character that has no escape in a string of this module
\* is written as its code point.
WhiteSpace ==
    {" ", "\t", "\n", "\r", "\f", "U+000B", "U+00A0", "U+FEFF", "U+2028",
     "U+2029", "U+1680", "U+2000", "U+2001", "U+2002", "U+2003", "U+2004",
     "U+2005", "U+2006", "U+2007", "U+2008", "U+2009", "U+200A", "U+202F",
     "U+205F", "U+3000"}

\* String.prototype.trim on a sequence of characters.
RECURSIVE trimStart(_)
trimStart(s) ==
    IF s # <<>> /\ Head(s) \in WhiteSpace THEN trimStart(Tail(s)) ELSE s

RECURSIVE trimEnd(_)
trimEnd(s) ==
    IF s # <<>> /\ s[Len(s)] \in WhiteSpace
    THEN trimEnd(SubSeq(s, 1, Len(s) - 1)) ELSE s

trim(s) == trimEnd(trimStart(s))

\* The value of one decimal digit.
DigitValue(c) ==
    CASE c = "0" -> 0 [] c = "1" -> 1 [] c = "2" -> 2 [] c = "3" -> 3
      [] c = "4" -> 4 [] c = "5" -> 5 [] c = "6" -> 6 [] c = "7" -> 7
      [] c = "8" -> 8 [] c = "9" -> 9

RECURSIVE DigitsValue(_)
DigitsValue(s) ==
    IF s = <<>> THEN 0
    ELSE 10 * DigitsValue(SubSeq(s, 1, Len(s) - 1)) + DigitValue(s[Len(s)])

\* The natural number a digit string writes.
RECURSIVE BigDigitsValue(_)
BigDigitsValue(s) ==
    IF s = <<>> THEN <<>>
    ELSE BigAdd(BigTimes(BigDigitsValue(SubSeq(s, 1, Len(s) - 1)), 10),
                BigOf(DigitValue(s[Len(s)])))

\* The first place of s that holds one of chars, 0 when there is none.
IndexOf(s, chars) ==
    IF \E i \in 1..Len(s) : s[i] \in chars
    THEN CHOOSE i \in 1..Len(s) :
            s[i] \in chars /\ \A j \in 1..(i - 1) : s[j] \notin chars
    ELSE 0

\* An optionally signed digit string: the exponent of a numeric literal.
SignedDigitsValue(s) ==
    IF s # <<>> /\ Head(s) = "-" THEN 0 - DigitsValue(Tail(s))
    ELSE IF s # <<>> /\ Head(s) = "+" THEN DigitsValue(Tail(s))
    ELSE DigitsValue(s)

\* Number(text) for the value of an <input type="number">: the empty text is 0,
\* otherwise a decimal literal (sign, digits, point and digits, exponent) and
\* its value the double nearest to it.
Number(s) ==
    IF s = <<>> THEN D(0)
    ELSE LET signed == Head(s) \in {"-", "+"}
             body == IF signed THEN Tail(s) ELSE s
             ePos == IndexOf(body, {"e", "E"})
             mantissa == IF ePos = 0 THEN body ELSE SubSeq(body, 1, ePos - 1)
             exponent == IF ePos = 0 THEN 0
                         ELSE SignedDigitsValue(
                                 SubSeq(body, ePos + 1, Len(body)))
             point == IndexOf(mantissa, {"."})
             whole == IF point = 0 THEN mantissa
                      ELSE SubSeq(mantissa, 1, point - 1)
             fraction == IF point = 0 THEN <<>>
                         ELSE SubSeq(mantissa, point + 1, Len(mantissa))
             digits == BigDigitsValue(whole \o fraction)
             sign == IF Head(s) = "-" THEN 0 - 1 ELSE 1
             shift == exponent - Len(fraction)
         IN  IF shift >= 0
             THEN Round(sign, BigMul(digits, BigPow10(shift)), FALSE, 0)
             ELSE RoundRatio(sign, digits, BigPow10(0 - shift), 0)

\* ------------------------------------------------------------ input sets
\* Texts typed into the player-name input (line 854).
NameTexts == { <<" ">>, <<"\t", "A", " ">> }

\* Texts typed into the buy-in input (line 308): 50, -5.
BuyInTexts == { <<"5", "0">>, <<"-", "5">> }

\* Texts typed into the rebuy input (line 391): 0.5, 50.
RebuyTexts == { <<"0", ".", "5">>, <<"5", "0">> }

\* Texts typed into a cashout input (line 577): 0, 40.
CashoutTexts == { <<>>, <<"4", "0">> }

\* Texts typed into a cashout input where the ranking is examined: 40.9, and
\* 90.05, which is within 0.1 of the chips of a player with a rebuy.
RankCashoutTexts == { <<"4", "0", ".", "9">>, <<"9", "0", ".", "0", "5">> }

\* Texts typed into the buy-in input where the ranking is examined: 50, and 10,
\* the buy-in that leaves no chips once the house fee is taken.
RankBuyInTexts == { <<"5", "0">>, <<"1", "0">> }

PaymentStatus == {"PAID", "PENDING"}

\* ------------------------------------------------------------------ state
VARIABLES
    gameState,         \* useState<GameState>, line 37
    view,              \* line 38
    showResetModal,    \* line 41
    selectedPlayerId,  \* line 44; 0 stands for null
    newPlayerName,     \* line 45
    rebuyAmount,       \* line 46
    showDeleteConfirm, \* line 47
    storage,           \* localStorage[STORAGE_KEY]
    pendingEffects,    \* the effects of the last render that have not run yet
    queued,            \* the updates effects have queued, not yet rendered
    nextUuid,          \* the next id crypto.randomUUID() returns
    lastOp             \* history: the handler the last event ran ("setState"
                       \* for an event that only calls a state setter)

vars == <<gameState, view, showResetModal, selectedPlayerId, newPlayerName,
          rebuyAmount, showDeleteConfirm, storage, pendingEffects, queued,
          nextUuid, lastOp>>

null == 0

\* ------------------------------------------------------------ sequences
Range(s) == { s[i] : i \in 1..Len(s) }

\* Array.prototype.map
Map(s, F(_)) == [i \in 1..Len(s) |-> F(s[i])]

\* Array.prototype.filter
Filter(s, T(_)) == SelectSeq(s, T)

\* ----------------------------------------------------------------- Player
\* cashoutAmount is an optional property (types.ts line 15): a Player record
\* has the field only once it was assigned.
HasCashout(p) == "cashoutAmount" \in DOMAIN p

\* { ...p, cashoutAmount: amount }
WithCashout(p, amount) == [cashoutAmount |-> amount] @@ p

\* p.name && p.name.trim() !== ''
IsValidName(name) == name # <<>> /\ trim(name) # <<>>

validPlayersOf(gs) == Filter(gs.players, LAMBDA p : IsValidName(p.name))

\* ------------------------------------------------------------------- JSON
\* A JSON text is modelled as the list of its members, <<key, value>> pairs in
\* the order the object's properties were created; a nested object or array is
\* a nested list.  A property that was never assigned has no member.
stringifyRebuy(r) ==
    << <<"id", r.id>>, <<"amount", r.amount>>, <<"status", r.status>> >>

\* a Player's text without its cashoutAmount
stringifyPlayer_noCashout(p) ==
    << <<"id", p.id>>, <<"name", p.name>>, <<"buyInStatus", p.buyInStatus>>,
       <<"rebuys", Map(p.rebuys, stringifyRebuy)>> >>

stringifyPlayer(p) ==
    << <<"id", p.id>>, <<"name", p.name>>, <<"buyInStatus", p.buyInStatus>>,
       <<"rebuys", Map(p.rebuys, stringifyRebuy)>> >>
    \o (IF HasCashout(p) THEN << <<"cashoutAmount", p.cashoutAmount>> >> ELSE <<>>)

JSONstringify(gs) ==
    << <<"isStarted", gs.isStarted>>, <<"finished", gs.finished>>,
       <<"config", << <<"buyInAmount", gs.config.buyInAmount>> >> >>,
       <<"players", Map(gs.players, stringifyPlayer)>> >>

\* A text cut short ends in a member without its value, at the top level or
\* inside config, a player or a rebuy: JSON.parse throws on it.
Complete(members) == \A i \in 1..Len(members) : Len(members[i]) = 2

WellFormed(text) ==
    /\ Complete(text)
    /\ \A i \in 1..Len(text) :
          /\ text[i][1] = "config" => Complete(text[i][2])
          /\ text[i][1] = "players" =>
                \A j \in 1..Len(text[i][2]) :
                    LET player == text[i][2][j]
                    IN  /\ Complete(player)
                        /\ \A k \in 1..Len(player) :
                              player[k][1] = "rebuys" =>
                                  \A l \in 1..Len(player[k][2]) :
                                      Complete(player[k][2][l])

\* The object a member list denotes.
parseObject(members) ==
    [k \in { members[i][1] : i \in 1..Len(members) } |->
        (CHOOSE m \in Range(members) : m[1] = k)[2]]

parsePlayer(members) ==
    LET o == parseObject(members)
    IN  [o EXCEPT !.rebuys = Map(@, parseObject)]

JSONparse(text) ==
    LET o == parseObject(text)
    IN  [o EXCEPT !.config = parseObject(@), !.players = Map(@, parsePlayer)]

\* ------------------------------------------------------------------ mount
\* The item found in localStorage when the page is first opened: none, a text
\* cut short at the top level or inside a player, or a started game saved with
\* a blank-named player (the ghost entries the load effect's filter is written
\* for, line 56).
TruncatedItem == << <<"isStarted", TRUE>>, <<"finished">> >>

TruncatedPlayerItem ==
    << <<"isStarted", TRUE>>, <<"finished", FALSE>>,
       <<"config", << <<"buyInAmount", D(50)>> >> >>,
       <<"players", << << <<"id", 90>>, <<"name">> >> >> >> >>

GhostItem ==
    JSONstringify([isStarted |-> TRUE, finished |-> FALSE,
                   config |-> [buyInAmount |-> D(50)],
                   players |-> << [id |-> 90, name |-> <<" ">>,
                                   buyInStatus |-> "PENDING", rebuys |-> <<>>] >>])

InitialItems == { <<>>, TruncatedItem, TruncatedPlayerItem, GhostItem }

\* The load effect's try block, lines 54-59: parse, then drop ghost players.
loadParsed(saved) ==
    LET parsed == JSONparse(saved)
    IN  [parsed EXCEPT !.players = Filter(@, LAMBDA p : IsValidName(p.name))]

\* if (saved) { try { ... } catch }, lines 52-66: whether a state is loaded.
loadSucceeds(saved) == saved # <<>> /\ WellFormed(saved)

\* parsed.finished ? 'RANKING' : 'DASHBOARD', line 61
loadView(parsed) == IF parsed.finished THEN "RANKING" ELSE "DASHBOARD"

\* The first render, lines 37-47: the useState initial values, with the item
\* as it is found in localStorage.
firstRender(saved) ==
    [gameState |-> INITIAL_STATE,
     view |-> "SETUP",
     showResetModal |-> FALSE,
     selectedPlayerId |-> null,
     newPlayerName |-> <<>>,
     rebuyAmount |-> <<"5", "0">>,
     showDeleteConfirm |-> FALSE,
     storage |-> saved,
     gameStateSet |-> FALSE]

\* The updates an effect has queued for the next render, one optional value
\* per state cell an effect sets: <<>> when none is queued, <<v>> for set(v).
NoUpdates == [gameState |-> <<>>, view |-> <<>>, showDeleteConfirm |-> <<>>]

\* the load effect choosing the dashboard before it parses the item
loadEffect_setViewFirst(saved) ==
    IF loadSucceeds(saved)
    THEN LET parsed == loadParsed(saved)
         IN  [NoUpdates EXCEPT
                 !.gameState = <<parsed>>,
                 !.view = IF parsed.isStarted THEN <<loadView(parsed)>>
                          ELSE <<>>]
    ELSE [NoUpdates EXCEPT !.view = <<"DASHBOARD">>]

\* The load effect, lines 50-67, finding the item saved: the updates it
\* queues.  A text that fails to parse is caught and nothing is set.
loadEffect(saved) ==
    IF loadSucceeds(saved)
    THEN LET parsed == loadParsed(saved)
         IN  [NoUpdates EXCEPT
                 !.gameState = <<parsed>>,
                 !.view = IF parsed.isStarted THEN <<loadView(parsed)>>
                          ELSE <<>>]
    ELSE NoUpdates

\* The save effect, lines 69-71, run after a render of gameState gs.
saveEffect(gs) == JSONstringify(gs)

\* The effect of lines 74-76, run after a render that changed
\* selectedPlayerId or view and left showDeleteConfirm at shown: the update it
\* queues (setShowDeleteConfirm(false) on a false value changes nothing).
deleteConfirmEffect(changed, shown) ==
    IF changed /\ shown THEN [NoUpdates EXCEPT !.showDeleteConfirm = <<FALSE>>]
    ELSE NoUpdates

\* The state u with the queued updates q applied, as the next render has it.
applyUpdates(u, q) ==
    [u EXCEPT
        !.gameState = IF q.gameState # <<>> THEN q.gameState[1] ELSE @,
        !.gameStateSet = (q.gameState # <<>>) \/ @,
        !.view = IF q.view # <<>> THEN q.view[1] ELSE @,
        !.showDeleteConfirm =
            IF q.showDeleteConfirm # <<>> THEN q.showDeleteConfirm[1] ELSE @]

\* The component state as one record, as the updates of a handler find it:
\* the rendered state with the updates the effects have queued applied.
UI ==
    applyUpdates(
        [gameState |-> gameState, view |-> view,
         showResetModal |-> showResetModal,
         selectedPlayerId |-> selectedPlayerId,
         newPlayerName |-> newPlayerName,
         rebuyAmount |-> rebuyAmount, showDeleteConfirm |-> showDeleteConfirm,
         storage |-> storage, gameStateSet |-> FALSE],
        queued)

\* setGameState(gs): a new object, so the save effect runs on the commit.
setGameState(u, gs) == [u EXCEPT !.gameState = gs, !.gameStateSet = TRUE]

\* The effects of the component, in the order they are declared: the load
\* effect (lines 50-67, no dependency), the save effect (lines 69-71, on
\* gameState) and the effect of lines 74-76 (on selectedPlayerId and view).
\* The first render leaves all three to run.
AllEffects == {"load", "save", "deleteConfirm"}

\* a render that leaves the save effect out when gameState was set
effectsOf_noSave(gameStateSet, changed) ==
    IF changed THEN {"deleteConfirm"} ELSE {}

\* The effects a render leaves to run: those with a dependency it changed.
effectsOf(gameStateSet, changed) ==
    (IF gameStateSet THEN {"save"} ELSE {})
        \cup (IF changed THEN {"deleteConfirm"} ELSE {})

\* The updates q with the updates r queued after them.
mergeUpdates(q, r) ==
    [gameState |-> IF r.gameState # <<>> THEN r.gameState ELSE q.gameState,
     view |-> IF r.view # <<>> THEN r.view ELSE q.view,
     showDeleteConfirm |-> IF r.showDeleteConfirm # <<>>
                           THEN r.showDeleteConfirm ELSE q.showDeleteConfirm]

\* The updates the effects pending queue when they run, finding the item
\* saved and the delete confirmation rendered as shown.
effectUpdates(pending, saved, shown) ==
    mergeUpdates(IF "load" \in pending THEN loadEffect(saved) ELSE NoUpdates,
                 deleteConfirmEffect("deleteConfirm" \in pending, shown))

\* The item after the effects pending have run on a render of gameState gs.
effectSave(pending, saved, gs) ==
    IF "save" \in pending THEN saveEffect(gs) ELSE saved

\* A discrete event whose handler set state: the render of the handler's
\* updates n and the effects of that render, which React runs before it
\* returns from the event.  Effects of an earlier render that are still to
\* run run before the render: the save effect writes the state that render
\* held, and the updates they queue go behind the handler's.  The render's
\* own effects are the save effect when gameState was set, and the effect of
\* lines 74-76, whose update is left queued for the render after.
Commit(n, op, uuid) ==
    LET m == applyUpdates(n, effectUpdates(pendingEffects, n.storage,
                                           showDeleteConfirm))
    IN  /\ gameState' = m.gameState
        /\ view' = m.view
        /\ showResetModal' = m.showResetModal
        /\ selectedPlayerId' = m.selectedPlayerId
        /\ newPlayerName' = m.newPlayerName
        /\ rebuyAmount' = m.rebuyAmount
        /\ showDeleteConfirm' = m.showDeleteConfirm
        /\ storage' = IF m.gameStateSet THEN saveEffect(m.gameState)
                      ELSE effectSave(pendingEffects, n.storage, gameState)
        /\ pendingEffects' = {}
        /\ queued' = deleteConfirmEffect(
                         m.selectedPlayerId # selectedPlayerId \/ m.view # view,
                         m.showDeleteConfirm)
        /\ nextUuid' = uuid
        /\ lastOp' = op

\* A discrete event whose handler returned before it set any state: nothing
\* is rendered, and what React still has to do is left to do.
NoRender(op) ==
    /\ lastOp' = op
    /\ UNCHANGED <<gameState, view, showResetModal, selectedPlayerId,
                   newPlayerName, rebuyAmount, showDeleteConfirm, storage,
                   pendingEffects, queued, nextUuid>>

\* What a run of effects is recorded as: whether the load effect found an
\* item that failed to parse (the catch of line 64).
effectsOp(pending, saved) ==
    IF "load" \in pending /\ saved # <<>> /\ ~WellFormed(saved)
    THEN "effects/loadFailed"
    ELSE "effects"

\* The page is opened: the first render, its effects still to run.
Init ==
    /\ \E saved \in InitialItems :
          LET m == firstRender(saved)
          IN  /\ gameState = m.gameState
              /\ view = m.view
              /\ showResetModal = m.showResetModal
              /\ selectedPlayerId = m.selectedPlayerId
              /\ newPlayerName = m.newPlayerName
              /\ rebuyAmount = m.rebuyAmount
              /\ showDeleteConfirm = m.showDeleteConfirm
              /\ storage = m.storage
    /\ pendingEffects = AllEffects
    /\ queued = NoUpdates
    /\ nextUuid = 1
    /\ lastOp = "mount"

\* The page is reloaded: the component is constructed again, the item as it
\* is at that moment; effects not yet run and updates not yet rendered are
\* lost.
Reload ==
    LET m == firstRender(storage)
    IN  /\ gameState' = m.gameState
        /\ view' = m.view
        /\ showResetModal' = m.showResetModal
        /\ selectedPlayerId' = m.selectedPlayerId
        /\ newPlayerName' = m.newPlayerName
        /\ rebuyAmount' = m.rebuyAmount
        /\ showDeleteConfirm' = m.showDeleteConfirm
        /\ storage' = m.storage
        /\ pendingEffects' = AllEffects
        /\ queued' = NoUpdates
        /\ nextUuid' = nextUuid
        /\ lastOp' = "mount"

\* The effects of a render that no discrete event caused run, in a task
\* after the render and in the order they are declared: the load effect
\* reads the item and queues its updates, the save effect writes the state
\* rendered, the effect of lines 74-76 queues its update.
RunEffects ==
    /\ pendingEffects # {}
    /\ queued' = mergeUpdates(queued,
                              effectUpdates(pendingEffects, storage,
                                            showDeleteConfirm))
    /\ storage' = effectSave(pendingEffects, storage, gameState)
    /\ pendingEffects' = {}
    /\ lastOp' = effectsOp(pendingEffects, storage)
    /\ UNCHANGED <<gameState, view, showResetModal, selectedPlayerId,
                   newPlayerName, rebuyAmount, showDeleteConfirm, nextUuid>>

\* The updates effects have queued are rendered, in a task of their own; the
\* effects of that render are left to run.
Render ==
    /\ pendingEffects = {}
    /\ queued # NoUpdates
    /\ LET m == UI
       IN  /\ gameState' = m.gameState
           /\ view' = m.view
           /\ showDeleteConfirm' = m.showDeleteConfirm
           /\ pendingEffects' =
                  effectsOf(m.gameStateSet,
                            m.selectedPlayerId # selectedPlayerId
                                \/ m.view # view)
    /\ queued' = NoUpdates
    /\ lastOp' = "render"
    /\ UNCHANGED <<showResetModal, selectedPlayerId, newPlayerName,
                   rebuyAmount, storage, nextUuid>>

\* ---------------------------------------------------------------- handlers
\* handleStartGame, lines 135-143
handleStartGame(u, amount) ==
    [setGameState(u, [u.gameState EXCEPT !.isStarted = TRUE, !.finished = FALSE,
                                         !.config = [buyInAmount |-> amount]])
        EXCEPT !.view = "DASHBOARD"]

\* addPlayer testing the name for emptiness without trimming it
addPlayer_noTrimCheck(u, uuid) ==
    IF u.newPlayerName = <<>> THEN u
    ELSE LET newPlayer == [id |-> uuid, name |-> trim(u.newPlayerName),
                           buyInStatus |-> "PENDING", rebuys |-> <<>>]
         IN  [setGameState(u, [u.gameState EXCEPT
                                  !.players = Append(@, newPlayer)])
                 EXCEPT !.newPlayerName = <<>>]

\* addPlayer, lines 145-155; uuid is what crypto.randomUUID() returns
addPlayer(u, uuid) ==
    IF trim(u.newPlayerName) = <<>> THEN u
    ELSE LET newPlayer == [id |-> uuid, name |-> trim(u.newPlayerName),
                           buyInStatus |-> "PENDING", rebuys |-> <<>>]
         IN  [setGameState(u, [u.gameState EXCEPT
                                  !.players = Append(@, newPlayer)])
                 EXCEPT !.newPlayerName = <<>>]

\* updatePlayerStatus, lines 157-162
updatePlayerStatus(u, id, status) ==
    setGameState(u, [u.gameState EXCEPT !.players =
        Map(@, LAMBDA p : IF p.id = id THEN [p EXCEPT !.buyInStatus = status]
                          ELSE p)])

\* addRebuy rejecting negative amounts only
addRebuy_rejectNegative(u, playerId, amount, uuid) ==
    IF DblLt(amount, D(0)) THEN u
    ELSE LET newRebuy == [id |-> uuid, amount |-> amount, status |-> "PENDING"]
         IN  setGameState(u, [u.gameState EXCEPT !.players =
                 Map(@, LAMBDA p : IF p.id = playerId
                                   THEN [p EXCEPT !.rebuys = Append(@, newRebuy)]
                                   ELSE p)])

\* addRebuy, lines 164-179
addRebuy(u, playerId, amount, uuid) ==
    IF DblLt(amount, D(1)) THEN u
    ELSE LET newRebuy == [id |-> uuid, amount |-> amount, status |-> "PENDING"]
         IN  setGameState(u, [u.gameState EXCEPT !.players =
                 Map(@, LAMBDA p : IF p.id = playerId
                                   THEN [p EXCEPT !.rebuys = Append(@, newRebuy)]
                                   ELSE p)])

\* removeRebuy filtering the rebuys of every player
removeRebuy_anyPlayer(u, playerId, rebuyId) ==
    setGameState(u, [u.gameState EXCEPT !.players =
        Map(@, LAMBDA p : [p EXCEPT !.rebuys =
                              Filter(@, LAMBDA r : r.id # rebuyId)])])

\* removeRebuy, lines 181-186
removeRebuy(u, playerId, rebuyId) ==
    setGameState(u, [u.gameState EXCEPT !.players =
        Map(@, LAMBDA p : IF p.id = playerId
                          THEN [p EXCEPT !.rebuys =
                                   Filter(@, LAMBDA r : r.id # rebuyId)]
                          ELSE p)])

\* toggleRebuyStatus marking the rebuy paid whatever its status
toggleRebuyStatus_setPaid(u, playerId, rebuyId) ==
    setGameState(u, [u.gameState EXCEPT !.players =
        Map(@, LAMBDA p : IF p.id = playerId
                          THEN [p EXCEPT !.rebuys =
                                   Map(@, LAMBDA r :
                                       IF r.id = rebuyId
                                       THEN [r EXCEPT !.status = "PAID"]
                                       ELSE r)]
                          ELSE p)])

\* toggleRebuyStatus, lines 188-197
toggleRebuyStatus(u, playerId, rebuyId) ==
    setGameState(u, [u.gameState EXCEPT !.players =
        Map(@, LAMBDA p : IF p.id = playerId
                          THEN [p EXCEPT !.rebuys =
                                   Map(@, LAMBDA r :
                                       IF r.id = rebuyId
                                       THEN [r EXCEPT !.status =
                                               IF r.status = "PAID"
                                               THEN "PENDING" ELSE "PAID"]
                                       ELSE r)]
                          ELSE p)])

\* removePlayer, lines 199-207
removePlayer(u, playerId) ==
    [setGameState(u, [u.gameState EXCEPT !.players =
                         Filter(@, LAMBDA p : p.id # playerId)])
        EXCEPT !.view = "DASHBOARD", !.selectedPlayerId = null,
               !.showDeleteConfirm = FALSE]

\* confirmResetGame resetting the flags and players of the previous state
confirmResetGame_keepConfig(u) ==
    LET emptyState == [u.gameState EXCEPT !.isStarted = FALSE,
                                          !.finished = FALSE, !.players = <<>>]
    IN  [setGameState([u EXCEPT !.storage = <<>>], emptyState)
            EXCEPT !.newPlayerName = <<>>, !.rebuyAmount = <<"5", "0">>,
                   !.selectedPlayerId = null, !.showResetModal = FALSE,
                   !.view = "SETUP"]

\* confirmResetGame without its setSelectedPlayerId(null)
confirmResetGame_keepSelected(u) ==
    LET emptyState == [isStarted |-> FALSE, finished |-> FALSE,
                       config |-> [buyInAmount |-> D(50)], players |-> <<>>]
    IN  [setGameState([u EXCEPT !.storage = <<>>], emptyState)
            EXCEPT !.newPlayerName = <<>>, !.rebuyAmount = <<"5", "0">>,
                   !.showResetModal = FALSE, !.view = "SETUP"]

\* confirmResetGame, lines 209-232
confirmResetGame(u) ==
    LET emptyState == [isStarted |-> FALSE, finished |-> FALSE,
                       config |-> [buyInAmount |-> D(50)], players |-> <<>>]
    IN  [setGameState([u EXCEPT !.storage = <<>>], emptyState)
            EXCEPT !.newPlayerName = <<>>, !.rebuyAmount = <<"5", "0">>,
                   !.selectedPlayerId = null, !.showResetModal = FALSE,
                   !.view = "SETUP"]

\* submitCashout, lines 234-239
submitCashout(u, playerId, amount) ==
    setGameState(u, [u.gameState EXCEPT !.players =
        Map(@, LAMBDA p : IF p.id = playerId THEN WithCashout(p, amount) ELSE p)])

\* finishGame, lines 241-244
finishGame(u) ==
    [setGameState(u, [u.gameState EXCEPT !.finished = TRUE])
        EXCEPT !.view = "RANKING"]

\* ------------------------------------------------------------------ views
\* getPlayer, line 79, as the set of matches (ids are unique)
getPlayer(id) == { p \in Range(gameState.players) : p.id = id }

\* validPlayers, line 82
validPlayers == validPlayersOf(gameState)

\* array.reduce((sum, x) => sum + x, 0): the sum taken from the left
RECURSIVE Sum(_)
Sum(s) ==
    IF s = <<>> THEN D(0)
    ELSE DblAdd(Sum(SubSeq(s, 1, Len(s) - 1)), s[Len(s)])

\* the sequences of a sequence, one after the other
RECURSIVE Flatten(_)
Flatten(ss) == IF ss = <<>> THEN <<>> ELSE Head(ss) \o Flatten(Tail(ss))

\* calculateTotals, lines 84-115, of the state gs.  Each total is the sum,
\* from the left, of what the loops add to it in their order: for each
\* non-ghost player what the buy-in adds, then what each rebuy adds (a total
\* the loop body leaves alone has 0 added, which changes no double).
calculateTotalsOf(gs) ==
    LET buyIn == gs.config.buyInAmount
        players == validPlayersOf(gs)
        added(first(_), each(_)) ==
            Flatten(Map(players,
                        LAMBDA p : <<first(p)>> \o Map(p.rebuys, each)))
        whenPaid(r) == IF r.status = "PAID" THEN r.amount ELSE D(0)
        whenPending(r) == IF r.status = "PAID" THEN D(0) ELSE r.amount
    IN  [totalBuyIns |-> Sum(Map(players, LAMBDA p : buyIn)),
         totalRebuys |-> Sum(added(LAMBDA p : D(0), LAMBDA r : r.amount)),
         totalFees |-> Sum(Map(players, LAMBDA p : HOUSE_FEE_FIXED)),
         totalChips |-> Sum(added(LAMBDA p : DblSub(buyIn, HOUSE_FEE_FIXED),
                                  LAMBDA r : r.amount)),
         totalPaid |-> Sum(added(LAMBDA p : IF p.buyInStatus = "PAID"
                                            THEN buyIn ELSE D(0),
                                 whenPaid)),
         totalPending |-> Sum(added(LAMBDA p : IF p.buyInStatus = "PAID"
                                               THEN D(0) ELSE buyIn,
                                    whenPending))]

\* calculateTotals as the render calls it, with the current gameState
calculateTotals == calculateTotalsOf(gameState)

totals == calculateTotals

\* p.cashoutAmount || 0, lines 471 and 482
cashoutOrZero(p) == IF HasCashout(p) THEN p.cashoutAmount ELSE D(0)

\* the chip verification of the settlement view, lines 471-473
totalCashoutDeclared == Sum(Map(validPlayers, cashoutOrZero))

\* the difference taken the other way round
chipsDifference_reversed == DblSub(totalCashoutDeclared, totals.totalChips)

chipsDifference == DblSub(totals.totalChips, totalCashoutDeclared)

\* Math.abs(chipsDifference) < 0.1
isBalanced == DblLt(DblAbs(chipsDifference), Dec(1, 1))

\* the audit card's three reports, lines 539-562
auditReport ==
    IF isBalanced THEN "Balanced"
    ELSE IF DblLt(D(0), chipsDifference) THEN "ChipsMissing"
    ELSE "ChipsExcess"

\* ----------------------------------------------------------------- ledger
\* a player's cash figures, lines 121-124 (the same in lines 339-344)
paidCash(p) ==
    DblAdd(IF p.buyInStatus = "PAID" THEN gameState.config.buyInAmount
           ELSE D(0),
           Sum(Map(p.rebuys,
                   LAMBDA r : IF r.status = "PAID" THEN r.amount ELSE D(0))))

totalCostCash(p) ==
    DblAdd(gameState.config.buyInAmount,
           Sum(Map(p.rebuys, LAMBDA r : r.amount)))

pendingCash(p) == DblSub(totalCostCash(p), paidCash(p))

\* debtors, lines 120-131
debtors ==
    Filter(Map(validPlayers,
               LAMBDA player : [id |-> player.id, name |-> player.name,
                                pending |-> pendingCash(player)]),
           LAMBDA d : DblLt(D(0), d.pending))

\* ---------------------------------------------------------------- ranking
\* the sign of a number: -1, 0 or 1
Sign(x) == IF x.m = <<>> THEN 0 ELSE x.s

\* (BuyIn - 10) + Rebuys, lines 478-480
investedChips(p) ==
    DblAdd(DblSub(gameState.config.buyInAmount, HOUSE_FEE_FIXED),
           Sum(Map(p.rebuys, LAMBDA r : r.amount)))

\* investedChips > 0 ? (out / investedChips) : 0, line 486
performanceRatio(out, invested) ==
    IF DblLt(D(0), invested) THEN DblDiv(out, invested) ELSE D(0)

\* the record the map callback returns, lines 476-491
settlement(p) ==
    LET out == cashoutOrZero(p)
        rankingFee == DblMul(out, Dec(10, 2))
        net == DblSub(out, rankingFee)
    IN  [investedChips |-> investedChips(p), out |-> out,
         performanceRatio |-> performanceRatio(out, investedChips(p)),
         rankingFee |-> rankingFee, net |-> net] @@ p

\* the comparator without its tie-break on the cashout amount
compare_noTieBreak(a, b) ==
    IF a.performanceRatio = b.performanceRatio THEN 0
    ELSE Sign(DblSub(b.performanceRatio, a.performanceRatio))

\* the sort comparator, lines 492-497: the sign of what it returns,
\* b.performanceRatio - a.performanceRatio, or b.out - a.out when the ratios
\* are equal
compare(a, b) ==
    IF a.performanceRatio = b.performanceRatio
    THEN Sign(DblSub(b.out, a.out))
    ELSE Sign(DblSub(b.performanceRatio, a.performanceRatio))

\* Array.prototype.sort with that comparator: a stable sort
RECURSIVE insert(_, _)
insert(x, s) ==
    IF s = <<>> THEN <<x>>
    ELSE IF compare(Head(s), x) <= 0 THEN <<Head(s)>> \o insert(x, Tail(s))
    ELSE <<x>> \o s

RECURSIVE sort(_)
sort(s) ==
    IF s = <<>> THEN <<>>
    ELSE insert(s[Len(s)], sort(SubSeq(s, 1, Len(s) - 1)))

\* rankedPlayers, lines 476-497
rankedPlayers == sort(Map(validPlayers, settlement))

\* getPoints giving the third place the points of the rest
getPoints_noThird(index) ==
    IF index = 0 THEN 20
    ELSE IF index = 1 THEN 15
    ELSE 5

\* getPoints, lines 499-504
getPoints(index) ==
    IF index = 0 THEN 20
    ELSE IF index = 1 THEN 15
    ELSE IF index = 2 THEN 10
    ELSE 5

\* the points column of the ranking table, line 697: getPoints(idx) per row
pointsColumn == [i \in 1..Len(rankedPlayers) |-> getPoints(i - 1)]

\* if (view === 'SETUP'), line 297
SetupRendered == view = "SETUP"

\* if (view === 'PLAYER_DETAIL' && selectedPlayer), lines 331-333
PlayerDetailRendered ==
    /\ ~SetupRendered
    /\ view = "PLAYER_DETAIL"
    /\ getPlayer(selectedPlayerId) # {}

\* if (view === 'RANKING' || view === 'CASHOUT'), line 469
SettlementRendered ==
    /\ ~SetupRendered /\ ~PlayerDetailRendered
    /\ view \in {"RANKING", "CASHOUT"}

\* the dashboard, the component's last return, line 750
DashboardRendered ==
    ~SetupRendered /\ ~PlayerDetailRendered /\ ~SettlementRendered

\* {view === 'CASHOUT' && <Button onClick={() => setView('DASHBOARD')}>}, line 511
BackButtonRendered == SettlementRendered /\ view = "CASHOUT"

\* the finish button rendered only once every cashout is declared
FinishButtonRendered_whenAllDeclared ==
    /\ ~SetupRendered /\ ~PlayerDetailRendered
    /\ view = "CASHOUT"
    /\ \A p \in Range(validPlayers) : HasCashout(p)

\* {view === 'CASHOUT' && <Button onClick={finishGame}>}, line 520
FinishButtonRendered == SettlementRendered /\ view = "CASHOUT"

\* {view === 'RANKING' && <Button ...>Nova Partida}, line 523
NewGameButtonRendered == SettlementRendered /\ view = "RANKING"

\* the cashout inputs rendered in the RANKING view too
CashoutInputsRendered_anyView ==
    /\ ~SetupRendered /\ ~PlayerDetailRendered
    /\ view \in {"RANKING", "CASHOUT"}

\* {view === 'CASHOUT' && validPlayers.map(... <input>)}, line 568
CashoutInputsRendered == SettlementRendered /\ view = "CASHOUT"

\* {showResetModal && ...}, lines 721 and 956: the modal is part of the
\* settlement and dashboard returns only.
ResetModalRendered ==
    (SettlementRendered \/ DashboardRendered) /\ showResetModal

\* ---------------------------------------------------------------- actions
\* SETUP: onClick of INICIAR PARTIDA, lines 319-322
StartGame ==
    /\ SetupRendered
    /\ \E text \in BuyInTexts :
          Commit(handleStartGame(UI, Number(text)),
                 "handleStartGame", nextUuid)

\* PLAYER_DETAIL: the back button, line 350
DetailBack ==
    /\ PlayerDetailRendered
    /\ Commit([UI EXCEPT !.view = "DASHBOARD"], "setState", nextUuid)

\* PLAYER_DETAIL: the buy-in PAGO/PAGAR button, line 380
ToggleBuyIn ==
    /\ PlayerDetailRendered
    /\ \E p \in getPlayer(selectedPlayerId) :
          LET status == IF p.buyInStatus = "PAID" THEN "PENDING" ELSE "PAID"
          IN  Commit(updatePlayerStatus(UI, p.id, status),
                     "updatePlayerStatus",
                     nextUuid)

\* PLAYER_DETAIL: onChange of the rebuy input, line 395
TypeRebuyAmount ==
    /\ PlayerDetailRendered
    /\ \E text \in RebuyTexts :
          Commit([UI EXCEPT !.rebuyAmount = text], "setState", nextUuid)

\* PLAYER_DETAIL: the Adicionar button, line 397
AddRebuy ==
    /\ PlayerDetailRendered
    /\ DblLt(Number(rebuyAmount), D(1)) \/ nextUuid <= MaxUuid
    /\ LET n == addRebuy(UI, selectedPlayerId, Number(rebuyAmount), nextUuid)
       IN  IF n = UI THEN NoRender("addRebuy")
           ELSE Commit(n, "addRebuy", nextUuid + 1)

\* PLAYER_DETAIL: a rebuy's status button, line 411
ToggleRebuy ==
    /\ PlayerDetailRendered
    /\ \E p \in getPlayer(selectedPlayerId) : \E r \in Range(p.rebuys) :
          Commit(toggleRebuyStatus(UI, p.id, r.id),
                 "toggleRebuyStatus", nextUuid)

\* PLAYER_DETAIL: a rebuy's trash button, line 416
RemoveRebuy ==
    /\ PlayerDetailRendered
    /\ \E p \in getPlayer(selectedPlayerId) : \E r \in Range(p.rebuys) :
          Commit(removeRebuy(UI, p.id, r.id),
                 "removeRebuy", nextUuid)

\* PLAYER_DETAIL: Excluir Jogador (line 453) and Cancelar (line 436)
SetDeleteConfirm ==
    /\ PlayerDetailRendered
    /\ Commit([UI EXCEPT !.showDeleteConfirm = ~showDeleteConfirm],
              "setState", nextUuid)

\* PLAYER_DETAIL: Confirmar Exclusao, rendered when showDeleteConfirm, line 443
RemovePlayer ==
    /\ PlayerDetailRendered
    /\ showDeleteConfirm
    /\ Commit(removePlayer(UI, selectedPlayerId),
              "removePlayer",
              nextUuid)

\* CASHOUT: the back button, line 512
CashoutBack ==
    /\ BackButtonRendered
    /\ Commit([UI EXCEPT !.view = "DASHBOARD"], "setState", nextUuid)

\* CASHOUT: Encerrar Partida, line 521
FinishGame ==
    /\ FinishButtonRendered
    /\ Commit(finishGame(UI), "finishGame", nextUuid)

\* RANKING: Nova Partida, line 528
RankingAskReset ==
    /\ NewGameButtonRendered
    /\ Commit([UI EXCEPT !.showResetModal = TRUE], "setState",
              nextUuid)

\* CASHOUT: onChange of a player's cashout input, line 581, with a text of texts
TypeCashoutFrom(texts) ==
    /\ CashoutInputsRendered
    /\ \E i \in 1..Len(validPlayers) : \E text \in texts :
          Commit(submitCashout(UI, validPlayers[i].id, Number(text)),
                 "submitCashout", nextUuid)

TypeCashout == TypeCashoutFrom(CashoutTexts)

\* the modal's Cancelar, lines 733 and 968
CancelReset ==
    /\ ResetModalRendered
    /\ Commit([UI EXCEPT !.showResetModal = FALSE], "setState",
              nextUuid)

\* the modal's Sim, Iniciar, lines 736 and 971
ConfirmReset ==
    /\ ResetModalRendered
    /\ Commit(confirmResetGame(UI), "confirmResetGame", nextUuid)

\* DASHBOARD: the header's reset button, line 759
DashboardAskReset ==
    /\ DashboardRendered
    /\ Commit([UI EXCEPT !.showResetModal = TRUE], "setState",
              nextUuid)

\* DASHBOARD: the header's Encerrar button, line 762
GoCashout ==
    /\ DashboardRendered
    /\ Commit([UI EXCEPT !.view = "CASHOUT"], "setState", nextUuid)

\* DASHBOARD: a click on a player's row (line 816) or debtor row (line 878)
SelectPlayer ==
    /\ DashboardRendered
    /\ \E i \in 1..Len(validPlayers) :
          Commit([UI EXCEPT !.selectedPlayerId = validPlayers[i].id,
                            !.view = "PLAYER_DETAIL"],
                 "setState", nextUuid)

\* DASHBOARD: onChange of the name input, line 854
TypeName ==
    /\ DashboardRendered
    /\ \E text \in NameTexts :
          Commit([UI EXCEPT !.newPlayerName = text], "setState",
                 nextUuid)

\* DASHBOARD: Enter in the name input (line 855) or the plus button (line 857)
AddPlayer ==
    /\ DashboardRendered
    /\ trim(newPlayerName) = <<>> \/ nextUuid <= MaxUuid
    /\ LET n == addPlayer(UI, nextUuid)
       IN  IF n = UI THEN NoRender("addPlayer")
           ELSE Commit(n, "addPlayer", nextUuid + 1)

Next ==
    \/ StartGame
    \/ DetailBack \/ ToggleBuyIn \/ TypeRebuyAmount \/ AddRebuy
    \/ ToggleRebuy \/ RemoveRebuy \/ SetDeleteConfirm \/ RemovePlayer
    \/ CashoutBack \/ FinishGame \/ RankingAskReset \/ TypeCashout
    \/ CancelReset \/ ConfirmReset
    \/ DashboardAskReset \/ GoCashout \/ SelectPlayer \/ TypeName \/ AddPlayer
    \/ Reload \/ RunEffects \/ Render

Spec == Init /\ [][Next]_vars

\* ------------------------------------------------- calls with unknown ids
\* The handlers take the ids as arguments and have no guard of their own
\* (lines 157-207, 234-239).  SpecCmd starts in a running game drawn from
\* SampleStates, shown in the player-detail or the cashout view, and calls a
\* handler, where its control is rendered, with an id that no player (or no
\* rebuy of that player) has.
RebuyIdOf(i, j) == MaxPlayers + (i - 1) * MaxRebuys + j

\* An id that no player and no rebuy of a sample state has.
FreshId == MaxPlayers * (1 + MaxRebuys) + 1

\* The i-th player of a sample state: either buy-in status, up to MaxRebuys
\* pending rebuys, with or without a declared cashout.
SamplePlayer(i) ==
    LET undeclared ==
          { [id |-> i, name |-> <<"A">>, buyInStatus |-> status,
             rebuys |-> [j \in 1..k |->
                           [id |-> RebuyIdOf(i, j), amount |-> D(50),
                            status |-> "PENDING"]]] :
            status \in PaymentStatus, k \in 0..MaxRebuys }
    IN  undeclared \cup { WithCashout(p, D(40)) : p \in undeclared }

RECURSIVE SamplePlayers(_)
SamplePlayers(n) ==
    IF n = 0 THEN { <<>> }
    ELSE { Append(ps, p) : ps \in SamplePlayers(n - 1), p \in SamplePlayer(n) }

SampleStates ==
    { [isStarted |-> TRUE, finished |-> FALSE,
       config |-> [buyInAmount |-> D(50)], players |-> ps] :
      ps \in UNION { SamplePlayers(n) : n \in 1..MaxPlayers } }

InitCmd ==
    \E gs \in SampleStates : \E v \in {"PLAYER_DETAIL", "CASHOUT"} :
        /\ gameState = gs
        /\ view = v
        /\ showResetModal = FALSE
        /\ selectedPlayerId = (IF v = "PLAYER_DETAIL" THEN 1 ELSE null)
        /\ newPlayerName = <<>>
        /\ rebuyAmount = <<"5", "0">>
        /\ showDeleteConfirm = (v = "PLAYER_DETAIL")
        /\ storage = JSONstringify(gs)
        /\ pendingEffects = {}
        /\ queued = NoUpdates
        /\ nextUuid = FreshId
        /\ lastOp = "setState"

PlayerIdArgs == 1..(MaxPlayers + 1)

RebuyIdArgs == { RebuyIdOf(1, 1), FreshId }

hasRebuy(playerId, rebuyId) ==
    \E p \in getPlayer(playerId) : \E r \in Range(p.rebuys) : r.id = rebuyId

NotFoundUpdatePlayerStatus ==
    /\ PlayerDetailRendered
    /\ \E id \in PlayerIdArgs : \E status \in PaymentStatus :
          /\ getPlayer(id) = {}
          /\ Commit(updatePlayerStatus(UI, id, status),
                    "updatePlayerStatus/notFound", nextUuid)

NotFoundAddRebuy ==
    /\ PlayerDetailRendered
    /\ nextUuid <= FreshId
    /\ \E id \in PlayerIdArgs :
          /\ getPlayer(id) = {}
          /\ Commit(addRebuy(UI, id, Number(rebuyAmount), nextUuid),
                    "addRebuy/notFound",
                    IF DblLt(Number(rebuyAmount), D(1)) THEN nextUuid
                    ELSE nextUuid + 1)

NotFoundRemoveRebuy ==
    /\ PlayerDetailRendered
    /\ \E playerId \in PlayerIdArgs : \E rebuyId \in RebuyIdArgs :
          /\ ~hasRebuy(playerId, rebuyId)
          /\ Commit(removeRebuy(UI, playerId, rebuyId),
                    "removeRebuy/notFound", nextUuid)

NotFoundToggleRebuyStatus ==
    /\ PlayerDetailRendered
    /\ \E playerId \in PlayerIdArgs : \E rebuyId \in RebuyIdArgs :
          /\ ~hasRebuy(playerId, rebuyId)
          /\ Commit(toggleRebuyStatus(UI, playerId, rebuyId),
                    "toggleRebuyStatus/notFound", nextUuid)

NotFoundRemovePlayer ==
    /\ PlayerDetailRendered
    /\ showDeleteConfirm
    /\ \E id \in PlayerIdArgs :
          /\ getPlayer(id) = {}
          /\ Commit(removePlayer(UI, id), "removePlayer/notFound", nextUuid)

NotFoundSubmitCashout ==
    /\ CashoutInputsRendered
    /\ \E id \in PlayerIdArgs : \E text \in CashoutTexts :
          /\ getPlayer(id) = {}
          /\ Commit(submitCashout(UI, id, Number(text)),
                    "submitCashout/notFound", nextUuid)

NextCmd ==
    \/ NotFoundUpdatePlayerStatus \/ NotFoundAddRebuy \/ NotFoundRemoveRebuy
    \/ NotFoundToggleRebuyStatus \/ NotFoundRemovePlayer
    \/ NotFoundSubmitCashout

SpecCmd == InitCmd /\ [][NextCmd]_vars

\* ------------------------------------------------------ the ledger figures
\* SpecLedger starts in a running game drawn from LedgerSamples, with the
\* detail view of one of its players open, and toggles the payment statuses.
LedgerRebuyId(i, j) == MaxPlayers + (i - 1) * MaxLedgerRebuys + j

\* The amount of a sample player's j-th rebuy: 20.1, 20.2, ...
LedgerAmount(j) == Dec(2000 + 10 * j, 2)

\* The i-th player of a sample state as addPlayer and addRebuy leave it: the
\* buy-in and up to MaxLedgerRebuys rebuys, all pending.
LedgerPlayer(i) ==
    { [id |-> i, name |-> <<"A">>, buyInStatus |-> "PENDING",
       rebuys |-> [j \in 1..k |->
                     [id |-> LedgerRebuyId(i, j), amount |-> LedgerAmount(j),
                      status |-> "PENDING"]]] :
      k \in 0..MaxLedgerRebuys }

RECURSIVE LedgerPlayers(_)
LedgerPlayers(n) ==
    IF n = 0 THEN { <<>> }
    ELSE { Append(ps, p) : ps \in LedgerPlayers(n - 1), p \in LedgerPlayer(n) }

\* Running games: a buy-in the start button can pass, 1..MaxPlayers players.
LedgerSamples ==
    { [isStarted |-> TRUE, finished |-> FALSE,
       config |-> [buyInAmount |-> Number(text)], players |-> ps] :
      text \in BuyInTexts,
      ps \in UNION { LedgerPlayers(n) : n \in 1..MaxPlayers } }

InitLedger ==
    \E gs \in LedgerSamples : \E i \in 1..Len(gs.players) :
        /\ gameState = gs
        /\ view = "PLAYER_DETAIL"
        /\ showResetModal = FALSE
        /\ selectedPlayerId = gs.players[i].id
        /\ newPlayerName = <<>>
        /\ rebuyAmount = <<"5", "0">>
        /\ showDeleteConfirm = FALSE
        /\ storage = JSONstringify(gs)
        /\ pendingEffects = {}
        /\ queued = NoUpdates
        /\ nextUuid = LedgerRebuyId(MaxPlayers, MaxLedgerRebuys) + 1
        /\ lastOp = "setState"

NextLedger == ToggleBuyIn \/ ToggleRebuy

SpecLedger == InitLedger /\ [][NextLedger]_vars

\* ------------------------------------------------------------ the ranking
\* SpecRank starts in the cashout-entry view of a running game drawn from
\* RankSamples; cashouts are then declared and the game is finished.
RankPlayer(i) ==
    { [id |-> i, name |-> <<"A">>, buyInStatus |-> "PAID",
       rebuys |-> [j \in 1..k |->
                     [id |-> MaxRanked + i, amount |-> D(50), status |-> "PAID"]]] :
      k \in 0..1 }

RECURSIVE RankPlayers(_)
RankPlayers(n) ==
    IF n = 0 THEN { <<>> }
    ELSE { Append(ps, p) : ps \in RankPlayers(n - 1), p \in RankPlayer(n) }

\* Running games of 1..MaxRanked players, each with or without one rebuy.
RankSamples ==
    { [isStarted |-> TRUE, finished |-> FALSE,
       config |-> [buyInAmount |-> Number(text)], players |-> ps] :
      text \in RankBuyInTexts,
      ps \in UNION { RankPlayers(n) : n \in 1..MaxRanked } }

InitRank ==
    \E gs \in RankSamples :
        /\ gameState = gs
        /\ view = "CASHOUT"
        /\ showResetModal = FALSE
        /\ selectedPlayerId = null
        /\ newPlayerName = <<>>
        /\ rebuyAmount = <<"5", "0">>
        /\ showDeleteConfirm = FALSE
        /\ storage = JSONstringify(gs)
        /\ pendingEffects = {}
        /\ queued = NoUpdates
        /\ nextUuid = 2 * MaxRanked + 1
        /\ lastOp = "setState"

TypeCashoutRank == TypeCashoutFrom(RankCashoutTexts)

NextRank == TypeCashoutRank \/ FinishGame

SpecRank == InitRank /\ [][NextRank]_vars

\* ================================================================= claims
AllPlayers == Range(gameState.players)

\* Nothing is left for React to do: no effect to run, no update to render.
Quiescent == pendingEffects = {} /\ queued = NoUpdates

\* The GameState that is reached from the rendered gs when what is left to
\* do is done with no event in between: the load effect, when it is among
\* the effects pending, finding the item, or the queued updates q.
SettledGame(gs, q, pending, item) ==
    IF "load" \in pending
    THEN IF loadSucceeds(item) THEN loadParsed(item) ELSE gs
    ELSE IF q.gameState # <<>> THEN q.gameState[1] ELSE gs

\* The view reached in the same way from the rendered view v.
SettledViewOf(v, q, pending, item) ==
    IF "load" \in pending
    THEN IF loadSucceeds(item) /\ loadParsed(item).isStarted
         THEN loadView(loadParsed(item)) ELSE v
    ELSE IF q.view # <<>> THEN q.view[1] ELSE v

\* The GameState and the view the controller is settling on, now and after
\* the step.
Game == SettledGame(gameState, queued, pendingEffects, storage)

GameAfter == SettledGame(gameState', queued', pendingEffects', storage')

SettledView == SettledViewOf(view, queued, pendingEffects, storage)

\* C1: every ResetGame (confirmResetGame) step, whatever the state it is taken
\* from, leaves GameState equal to the initial empty value INITIAL_STATE.
C1_ResetYieldsInitialState ==
    [][lastOp' = "confirmResetGame" => gameState' = INITIAL_STATE]_vars

\* A reset has run on a game in which players or rebuys had been created.
C1_Witness ==
    /\ lastOp = "confirmResetGame"
    /\ nextUuid > 1
    /\ gameState = INITIAL_STATE

C5_RebuyBelowOneRejected ==
    /\ [](\A p \in AllPlayers : \A r \in Range(p.rebuys) :
             DblLe(D(1), r.amount))
    /\ [][lastOp' = "addRebuy" /\ DblLt(Number(rebuyAmount), D(1))
             => gameState' = gameState]_vars

\* AddRebuy has just been refused, on the amount 0.5, for a player who
\* already has a rebuy.
C5_Witness ==
    /\ lastOp = "addRebuy"
    /\ DblLt(Number(rebuyAmount), D(1))
    /\ DblLt(D(0), Number(rebuyAmount))
    /\ PlayerDetailRendered
    /\ \E p \in getPlayer(selectedPlayerId) : Len(p.rebuys) = 1

NotFoundOps ==
    { "updatePlayerStatus/notFound", "addRebuy/notFound", "removeRebuy/notFound",
      "toggleRebuyStatus/notFound", "removePlayer/notFound",
      "submitCashout/notFound" }

\* C6: SetBuyInStatus, AddRebuy, RemoveRebuy, ToggleRebuyStatus, SubmitCashout
\* and RemovePlayer called with a player id or rebuy id that does not exist
\* leave players, config, isStarted and finished unchanged.
C6_UnknownIdIsNoOp ==
    [][lastOp' \in NotFoundOps => gameState' = gameState]_vars

\* RemoveRebuy has run with an unknown id in a game where a player has a rebuy.
C6_Witness ==
    /\ lastOp = "removeRebuy/notFound"
    /\ \E p \in AllPlayers : p.rebuys # <<>>

\* C7 as stated: while the game is started, not finished and the dashboard or
\* player-detail view is shown, no player has a cashoutAmount.
C7_CashoutAbsentWhileActive ==
    (gameState.isStarted /\ ~gameState.finished
        /\ view \in {"DASHBOARD", "PLAYER_DETAIL"})
    => \A p \in AllPlayers : ~HasCashout(p)

\* C7 amended: no player has a cashoutAmount at first, and a step gives a
\* player of the game the controller holds or is loading a cashoutAmount it
\* did not have before only as a SubmitCashout taken and ended in the
\* cashout-entry view (a declared amount stays when the view goes back to the
\* dashboard).
C7_CashoutWrittenInCashoutEntryOnly ==
    /\ \A p \in AllPlayers : ~HasCashout(p)
    /\ [][LET before == Game.players
                after == GameAfter.players
            IN  \A q \in Range(after) :
                   HasCashout(q) =>
                      \/ \E p \in Range(before) :
                            /\ p.id = q.id
                            /\ HasCashout(p)
                            /\ p.cashoutAmount = q.cashoutAmount
                      \/ /\ lastOp' = "submitCashout"
                         /\ view = "CASHOUT"
                         /\ view' = "CASHOUT"]_vars

\* Back on the dashboard of a running game, a player keeps a declared cashout.
C7_Witness ==
    /\ view = "DASHBOARD"
    /\ gameState.isStarted /\ ~gameState.finished
    /\ lastOp = "setState"
    /\ \E p \in AllPlayers : HasCashout(p)

\* The lifecycle state of spec section 4.5, read off the flags and the view.
LifecycleOf(gs, v) ==
    IF ~gs.isStarted THEN "SETUP"
    ELSE IF gs.finished THEN "FINISHED"
    ELSE IF v = "CASHOUT" THEN "CASHOUT_ENTRY"
    ELSE "ACTIVE"

LifecycleState == LifecycleOf(gameState, view)

\* The players without their cashoutAmount: names, buy-in statuses, rebuys.
LedgerOf(gs) ==
    Map(gs.players,
        LAMBDA p : [id |-> p.id, name |-> p.name,
                    buyInStatus |-> p.buyInStatus, rebuys |-> p.rebuys])

ResetOffered ==
    ResetModalRendered \/ DashboardRendered \/ NewGameButtonRendered

\* C9 as stated: the reset command is enabled in every lifecycle state.
C9_ResetEnabledInEveryState == ResetOffered

\* C9 amended: ResetGame runs only from the reset modal, which is rendered in
\* the DASHBOARD, CASHOUT and RANKING views while showResetModal is true; it
\* then moves to SETUP with the initial GameState and every transient input
\* cleared.
C9_ResetFromModalClearsAll ==
    [][lastOp' = "confirmResetGame" =>
          /\ showResetModal
          /\ view \in {"DASHBOARD", "CASHOUT", "RANKING"}
          /\ view' = "SETUP"
          /\ gameState' = INITIAL_STATE
          /\ newPlayerName' = <<>>
          /\ Number(rebuyAmount') = D(50)
          /\ selectedPlayerId' = null
          /\ ~showResetModal'
          /\ ~showDeleteConfirm']_vars

\* A reset has run after players were created.
C9_Witness ==
    /\ lastOp = "confirmResetGame"
    /\ view = "SETUP"
    /\ nextUuid > MaxUuid
    /\ ~showResetModal /\ selectedPlayerId = null

\* C10: in every cashout-entry state FinishGame is enabled and sets finished,
\* whatever the audit reports and whether or not every cashout is declared.
C10_AuditNeverBlocksFinish ==
    LifecycleState = "CASHOUT_ENTRY"
    => ENABLED (FinishGame /\ gameState'.finished /\ view' = "RANKING")

\* FinishGame has run with the audit unbalanced and a cashout undeclared.
C10_Witness ==
    /\ lastOp = "finishGame"
    /\ gameState.finished
    /\ auditReport # "Balanced"
    /\ \E p \in AllPlayers : ~HasCashout(p)
    /\ \E p \in AllPlayers : HasCashout(p)

\* C11 as stated: the SETUP -> ACTIVE transition is taken only with a positive
\* buy-in, so in every reachable state with isStarted the buy-in amount is
\* greater than zero.
C11_StartedImpliesPositiveBuyIn ==
    gameState.isStarted => DblLt(D(0), gameState.config.buyInAmount)

\* C12 as stated: no money value held in GameState is negative: the buy-in
\* amount is at least zero, every rebuy amount is greater than zero and every
\* declared cashout amount is at least zero.
C12_MoneyNeverNegative ==
    /\ DblLe(D(0), gameState.config.buyInAmount)
    /\ \A p \in AllPlayers :
          /\ \A r \in Range(p.rebuys) : DblLt(D(0), r.amount)
          /\ HasCashout(p) => DblLe(D(0), p.cashoutAmount)

\* C13 as stated: for every player paidCash + pendingCash = totalCostCash,
\* where paidCash is the buy-in if PAID plus the PAID rebuys and
\* totalCostCash the buy-in plus all rebuys, and 0 <= pendingCash <=
\* totalCostCash whenever the buy-in amount is not negative.
C13_PaidPlusPendingIsTotal ==
    \A p \in Range(validPlayers) :
        LET buyIn == gameState.config.buyInAmount
            paid == DblAdd(IF p.buyInStatus = "PAID" THEN buyIn ELSE D(0),
                           Sum(Map(Filter(p.rebuys,
                                          LAMBDA r : r.status = "PAID"),
                                   LAMBDA r : r.amount)))
            total == DblAdd(buyIn, Sum(Map(p.rebuys, LAMBDA r : r.amount)))
        IN  /\ paidCash(p) = paid
            /\ totalCostCash(p) = total
            /\ DblAdd(paidCash(p), pendingCash(p)) = totalCostCash(p)
            /\ DblLe(D(0), buyIn)
                  => /\ DblLe(D(0), pendingCash(p))
                     /\ DblLe(pendingCash(p), totalCostCash(p))

\* The sum of the amounts of all rebuys of the non-ghost players.
AllRebuyAmounts ==
    Sum(Map(validPlayers, LAMBDA p : Sum(Map(p.rebuys, LAMBDA r : r.amount))))

\* C14 as stated: totalChips = playerCount * (buyInAmount - 10) + the sum of
\* all rebuy amounts, and a SetBuyInStatus or ToggleRebuyStatus step leaves
\* totalChips, totalBuyIns, totalRebuys and totalFees unchanged and moves cash
\* between totalPaid and totalPending, whose sum stays the same.
C14_ChipsIndependentOfPayment ==
    /\ [](totals.totalChips =
             DblAdd(DblMul(D(Len(validPlayers)),
                           DblSub(gameState.config.buyInAmount, D(10))),
                    AllRebuyAmounts))
    /\ [][lastOp' \in {"updatePlayerStatus", "toggleRebuyStatus"} =>
             LET before == calculateTotalsOf(gameState)
                 after == calculateTotalsOf(gameState')
             IN  /\ after.totalChips = before.totalChips
                 /\ after.totalBuyIns = before.totalBuyIns
                 /\ after.totalRebuys = before.totalRebuys
                 /\ after.totalFees = before.totalFees
                 /\ DblAdd(after.totalPaid, after.totalPending)
                       = DblAdd(before.totalPaid, before.totalPending)
                 /\ after.totalPaid # before.totalPaid
                 /\ after.totalPending # before.totalPending]_vars

\* Whether the player's buy-in or one of the player's rebuys is not PAID.
HasUnpaid(p) ==
    p.buyInStatus # "PAID" \/ \E r \in Range(p.rebuys) : r.status # "PAID"

\* C19 as stated: debtors lists the non-ghost players with pendingCash > 0, in
\* player order, each with its pendingCash, and a player is off the list
\* exactly when the buy-in and all the rebuys are PAID.
C19_DebtorsAreTheUnpaid ==
    /\ debtors =
          Map(Filter(validPlayers, LAMBDA p : DblLt(D(0), pendingCash(p))),
              LAMBDA p : [id |-> p.id, name |-> p.name,
                          pending |-> pendingCash(p)])
    /\ \A p \in Range(validPlayers) :
          (\E d \in Range(debtors) : d.id = p.id) <=> HasUnpaid(p)

\* C20: applying ToggleRebuyStatus twice to an existing rebuy gives back the
\* GameState, and a ToggleRebuyStatus step changes the status of one rebuy of
\* one player and nothing else.
C20_ToggleIsInvolution ==
    /\ [](\A p \in AllPlayers : \A r \in Range(p.rebuys) :
             toggleRebuyStatus(toggleRebuyStatus(UI, p.id, r.id),
                               p.id, r.id).gameState = gameState)
    /\ [][lastOp' = "toggleRebuyStatus" =>
             \E i \in 1..Len(gameState.players) :
                \E j \in 1..Len(gameState.players[i].rebuys) :
                   gameState' =
                      [gameState EXCEPT !.players[i].rebuys[j].status =
                          IF @ = "PAID" THEN "PENDING" ELSE "PAID"]]_vars

\* The second rebuy of a player was toggled back while the first stays paid,
\* in a game with another player.
C20_Witness ==
    /\ lastOp = "toggleRebuyStatus"
    /\ Len(gameState.players) >= 2
    /\ \E p \in getPlayer(selectedPlayerId) :
          /\ Len(p.rebuys) >= 2
          /\ p.rebuys[1].status = "PAID"
          /\ p.rebuys[2].status = "PENDING"

\* The place of the player with that id in the list of non-ghost players.
PlaceOf(id) == CHOOSE k \in 1..Len(validPlayers) : validPlayers[k].id = id

\* The player a ranking row was made from.
PlayerOf(row) == validPlayers[PlaceOf(row.id)]

\* C15: the ranking holds each non-ghost player once, and for rows a before b
\* either ratio(a) > ratio(b), or the ratios are equal and out(a) > out(b), or
\* both are equal and a precedes b in GameState.players.
C15_RankingOrder ==
    LET r == rankedPlayers
    IN  /\ Len(r) = Len(validPlayers)
        /\ \A k \in 1..Len(validPlayers) :
              Cardinality({ i \in 1..Len(r) : r[i].id = validPlayers[k].id }) = 1
        /\ \A i \in 1..Len(r) : \A j \in (i + 1)..Len(r) :
              \/ DblLt(r[j].performanceRatio, r[i].performanceRatio)
              \/ /\ r[i].performanceRatio = r[j].performanceRatio
                 /\ DblLt(r[j].out, r[i].out)
              \/ /\ r[i].performanceRatio = r[j].performanceRatio
                 /\ r[i].out = r[j].out
                 /\ PlaceOf(r[i].id) < PlaceOf(r[j].id)

\* In the final ranking a later player leads on the ratio, two players tie on
\* the ratio and differ on the cashout, and two tie on both.
C15_Witness ==
    /\ lastOp = "finishGame"
    /\ view = "RANKING"
    /\ Len(rankedPlayers) = 4
    /\ PlaceOf(rankedPlayers[1].id) = 4
    /\ \E i, j \in 1..4 :
          /\ i < j
          /\ rankedPlayers[i].performanceRatio
                = rankedPlayers[j].performanceRatio
          /\ DblLt(rankedPlayers[j].out, rankedPlayers[i].out)
          /\ PlaceOf(rankedPlayers[i].id) > PlaceOf(rankedPlayers[j].id)
    /\ \E i \in 1..3 :
          /\ rankedPlayers[i].performanceRatio
                = rankedPlayers[i + 1].performanceRatio
          /\ rankedPlayers[i].out = rankedPlayers[i + 1].out

\* C16: the row at position 0 gets 20 points, position 1 gets 15, position 2
\* gets 10 and every later position 5; the points do not increase along the
\* ranking and min(n, 3) of the n rows get more than 5.
C16_PointsByPosition ==
    LET points == pointsColumn
        n == Len(validPlayers)
    IN  /\ Len(points) = n
        /\ \A i \in 1..n :
              points[i] =
                 CASE i = 1 -> 20 [] i = 2 -> 15 [] i = 3 -> 10 [] OTHER -> 5
        /\ \A i \in 1..(n - 1) : points[i] >= points[i + 1]
        /\ Cardinality({ i \in 1..n : points[i] > 5 })
              = (IF n < 3 THEN n ELSE 3)

\* The final ranking of four players.
C16_Witness ==
    /\ lastOp = "finishGame"
    /\ view = "RANKING"
    /\ Len(rankedPlayers) = 4
    /\ pointsColumn[4] = 5

\* C17 as stated: each ranking row has out = cashoutAmount if present else 0,
\* performanceRatio = out / investedChips if investedChips > 0 and 0 otherwise
\* (a defined value also when the buy-in is 10 or less and the player has no
\* rebuys), rankingFee = out * 0.10 and net = out - rankingFee, so that
\* rankingFee + net = out.
C17_SettlementRecord ==
    LET ranked == rankedPlayers
    IN  \A i \in 1..Len(ranked) :
           LET row == ranked[i]
               p == PlayerOf(row)
               invested == DblAdd(DblSub(gameState.config.buyInAmount, D(10)),
                                  Sum(Map(p.rebuys, LAMBDA r : r.amount)))
           IN  /\ row.out = (IF HasCashout(p) THEN p.cashoutAmount ELSE D(0))
               /\ row.investedChips = invested
               /\ row.performanceRatio =
                     (IF DblLt(D(0), invested) THEN DblDiv(row.out, invested)
                      ELSE D(0))
               /\ row.rankingFee = DblMul(row.out, Dec(10, 2))
               /\ row.net = DblSub(row.out, row.rankingFee)
               /\ DblAdd(row.rankingFee, row.net) = row.out

\* C18: chipsDifference = totalChips - the declared cashouts (an undeclared
\* cashout counting 0), and the audit reports one of three states: Balanced
\* when the difference is within the tolerance of 0.1, otherwise ChipsMissing
\* when it is greater than 0 and ChipsExcess when it is less.
C18_AuditThreeStates ==
    LET declared == Sum(Map(validPlayers,
                            LAMBDA p : IF HasCashout(p) THEN p.cashoutAmount
                                       ELSE D(0)))
        diff == DblSub(totals.totalChips, declared)
        tolerance == Dec(1, 1)
    IN  /\ chipsDifference = diff
        /\ auditReport \in {"Balanced", "ChipsMissing", "ChipsExcess"}
        /\ auditReport = "Balanced" <=>
              DblLt(DblSub(D(0), tolerance), diff) /\ DblLt(diff, tolerance)
        /\ auditReport = "ChipsMissing" <=> DblLe(tolerance, diff)
        /\ auditReport = "ChipsExcess" <=> DblLe(diff, DblSub(D(0), tolerance))

\* Two cashouts of 90.05 are declared against 180 chips: the difference the
\* code computes is above -0.1 and the audit reports Balanced.
C18_Witness ==
    /\ lastOp = "submitCashout"
    /\ view = "CASHOUT"
    /\ auditReport = "Balanced"
    /\ totalCashoutDeclared = DblAdd(Dec(9005, 2), Dec(9005, 2))
    /\ totals.totalChips = D(180)
    /\ DblLt(chipsDifference, D(0))

\* GameState s with its blank-named players removed.
Stripped(s) == [s EXCEPT !.players = Filter(@, LAMBDA p : IsValidName(p.name))]

\* C21: loading the document written by saving the GameState yields the
\* GameState with its blank-named players removed, and a reload of a
\* quiescent page settles on that value.
C21_LoadOfSaveRoundTrip ==
    /\ [](LET document == saveEffect(gameState)
          IN  /\ loadSucceeds(document)
              /\ loadParsed(document) = Stripped(gameState))
    /\ [][Quiescent /\ lastOp' = "mount"
             => GameAfter = Stripped(gameState)]_vars

\* A finished game was reloaded, rendered again and saved, in which a player has a
\* paid buy-in, a rebuy and a declared cashout of 40.
C21_Witness ==
    /\ lastOp = "effects"
    /\ Quiescent
    /\ view = "RANKING"
    /\ gameState.finished
    /\ storage = saveEffect(gameState)
    /\ \E p \in AllPlayers :
          /\ p.buyInStatus = "PAID"
          /\ p.rebuys # <<>>
          /\ HasCashout(p)
          /\ p.cashoutAmount = D(40)

\* the steps that complete a startup: the run of the effects and the render of
\* what they queued
StartupSteps == {"effects", "effects/loadFailed", "render"}

\* C22: in every quiescent state the stored document is the text of the
\* current GameState; a startup run to its end leaves the game that was saved
\* as the game the controller settles on, the first render's save of the
\* initial state notwithstanding, and so does a reload of a quiescent page;
\* after ResetGame has run to completion the document is the text of the
\* initial state and a reload yields the initial state.
C22_DocumentFollowsState ==
    /\ [](Quiescent => storage = saveEffect(gameState))
    /\ [][(lastOp' \in StartupSteps \/ (Quiescent /\ lastOp' = "mount"))
             => GameAfter = Game]_vars
    /\ [][lastOp' = "confirmResetGame" =>
             /\ storage' = saveEffect(INITIAL_STATE)
             /\ loadParsed(storage') = INITIAL_STATE]_vars

\* A running game with a player was reloaded and the startup has run to its
\* end: the document is the text of the game, not of the initial state.
C22_Witness ==
    /\ lastOp = "effects"
    /\ Quiescent
    /\ gameState.isStarted /\ ~gameState.finished
    /\ gameState.players # <<>>
    /\ view = "DASHBOARD"
    /\ storage = saveEffect(gameState)
    /\ storage # saveEffect(INITIAL_STATE)

\* C23: when the stored document fails to parse at startup, GameState is the
\* empty initial state, the setup view is rendered with nothing left to
\* render, and a StartGame taken from there starts a game without players.
C23_CorruptDocumentAbandoned ==
    /\ [](lastOp = "effects/loadFailed" =>
             /\ gameState = INITIAL_STATE
             /\ SetupRendered
             /\ Quiescent)
    /\ [][lastOp = "effects/loadFailed" /\ lastOp' = "handleStartGame" =>
             /\ gameState'.isStarted
             /\ ~gameState'.finished
             /\ gameState'.players = <<>>
             /\ view' = "DASHBOARD"]_vars

\* The page was opened on a document cut short; the document now stored is the
\* text of the initial state.
C23_Witness ==
    /\ lastOp = "effects/loadFailed"
    /\ SetupRendered
    /\ loadSucceeds(storage)
    /\ loadParsed(storage) = INITIAL_STATE

\* C24: AddPlayer with a blank or whitespace-only name leaves GameState
\* unchanged, every player of GameState has a non-blank name, and the players
\* the derived figures are computed over are all the players of GameState.
C24_NoGhostPlayers ==
    /\ [](/\ \A p \in AllPlayers : p.name # <<>> /\ trim(p.name) # <<>>
          /\ validPlayers = gameState.players)
    /\ [][lastOp' = "addPlayer" /\ trim(newPlayerName) = <<>>
             => gameState' = gameState]_vars

\* AddPlayer has run on a whitespace-only name in a game that has a player.
C24_Witness ==
    /\ lastOp = "addPlayer"
    /\ newPlayerName = <<" ">>
    /\ Len(gameState.players) = 1
    /\ DashboardRendered

\* the operations that edit the ledger of players
LedgerOps ==
    {"addPlayer", "removePlayer", "updatePlayerStatus", "addRebuy",
     "removeRebuy", "toggleRebuyStatus", "submitCashout"}

====
